---- MODULE Spec2Model ----
(***************************************************************************)
(* Model of tx/WenetPiCamera2.py: the WenetPiCamera2 wrapper class.        *)
(*                                                                         *)
(* One object is constructed (__init__ with its init_camera retries), then *)
(* run() starts the auto_capture loop on a thread, stop() clears the       *)
(* running flag.  The Picamera2 handle, the external resize/ssdv tools,    *)
(* the post-process hook and the PacketTX queue are the environment: their *)
(* outcomes are inputs chosen with \E, the camera's driven by the hardware *)
(* being up or down.                                                       *)
(***************************************************************************)
EXTENDS Integers, Sequences, FiniteSets, TLC

\* ------------------------------------------------------------- bounds
\* Largest num_images an object is constructed with.
MaxImages == 3
\* Images one auto_capture thread enqueues before the model stops following it.
MaxCycles == 2
\* init_retries passed to the constructor (the default is 10).
MaxRetries == 2
MaxThreads == 2       \* auto_capture threads alive at once, at most
LiveImages == 2       \* num_images at most, where liveness is checked

\* ------------------------------------------------------------- constants
\* The image id field is 8 bits wide: image_id % 256.
IdModulus == 256

\* start_id arguments given to run(): the last id before the wrap, and one
\* above 255.
StartIds == {255, 300}
\* Sizes in bytes a temp file can have.
Sizes == {10000, 12000, 15000}
\* os.system return codes of the external tools: success, or a failure.
ExitCodes == {0, 1}

VARIABLES
    \* --- environment
    hw,                   \* "up" | "down": is the camera hardware answering
    tx_empty,             \* what tx.image_queue_empty() returns if polled now
    \* --- constructor arguments (fixed at construction)
    debug_set,            \* debug_ptr is not None
    lens,                 \* "none": no LensPosition control; "manual": control
                          \* and lens_position >= 0; "continuous": control and < 0
    num_images,
    \* --- the object
    main_pc,              \* "ctor" while __init__ runs, then "constructed"
    init_retries,
    cam,                  \* self.cam: "absent" | "open" | "started" | "closed"
    cam_ready,            \* the last init_camera ran to its end
    tx_resolution_set,    \* self.tx_resolution has been assigned
    auto_capture_running,
    tmp,                  \* temp file i -> the sizes it may have: {} when it
                          \* does not exist, {s} once this round wrote it,
                          \* Sizes for a file an earlier round left behind
    \* --- the auto_capture thread
    pc,
    start_id, has_hook,   \* arguments of run()
    image_id,
    i,                    \* loop index of capture's for loop
    capture_successful,   \* "none" | "ok" | "fail" in this cycle
    \* --- observations (history, read by no action)
    \* the capture round, kept until the loop's next step after capture:
    shots,                \* sizes written by the capture_file calls of this
                          \* round, 0 for a call that raised
    dest,                 \* size of the file cp copied to capture_filename
    \* the cycle, kept until the next cycle starts:
    rec_log,              \* camera calls attempted by the recovery branch
    hook,                 \* "none" | "ok" | "raised"
    enc,                  \* what ssdvify did
    last_poll,            \* "none" | "empty" | "busy"
    enq_log,              \* image ids of the files enqueued by this thread
    stop_in_wait,         \* stop() cleared the flag inside the backpressure wait
    busy_after_stop,      \* ... and the poll before the loop's next look at
                          \* the flag found the queue non-empty
    settle,               \* capture slept its 3 s before the first capture_file
    init_obs,             \* what the last init_camera call of this cycle (or
                          \* of the constructor) did
    emit_failed,          \* a debug emission raised in the operation making it
    \* --- callers that do not keep to one loop, and close()
    others,               \* auto_capture threads alive besides the one followed
    since_stop,           \* capture rounds started and files queued by the
                          \* loop since stop() cleared the flag
    ctor_obs,             \* what the constructor's retry loop did
    close_obs             \* what the last close() call did

env_vars == <<hw, tx_empty>>
cfg_vars == <<debug_set, lens, num_images>>
obj_vars == <<main_pc, init_retries, cam, cam_ready, tx_resolution_set>>
cap_vars == <<tmp, i, capture_successful, dest, shots>>
thr_vars == <<start_id, has_hook, image_id>>
obs_vars == <<rec_log, hook, enc, last_poll, enq_log, stop_in_wait, busy_after_stop>>
new_obs == <<settle, init_obs, emit_failed>>
aux_vars == <<others, close_obs, since_stop, ctor_obs>>
vars == <<env_vars, cfg_vars, obj_vars, cap_vars, thr_vars, obs_vars, new_obs,
          aux_vars, auto_capture_running, pc>>

NoFiles == [k \in 0..(MaxImages - 1) |-> {}]
\* The files stay, what an abandoned round wrote into them is no longer followed.
LeftBehind(files) == [k \in DOMAIN files |-> IF files[k] = {} THEN {} ELSE Sizes]
\* ssdvify has not run: no tool was called, nothing was returned.
NoEnc == [resize_calls |-> 0, resize_rc |-> 0, ssdv_calls |-> 0, ssdv_rc |-> 0,
          id |-> 0, result |-> "none"]

\* The constructor called with init_retries = n, its loop not yet entered:
\* the passes made through init_camera, whether one has succeeded, and
\* whether a pass was made after that.
CtorBegins(n) == [arg |-> n, attempts |-> 0, succeeded |-> FALSE, late |-> FALSE]
\* The constructor is long over.
NoCtor == CtorBegins(0)

\* Nothing done since the flag was cleared, or the flag is set.
NoneSince == [rounds |-> 0, enqs |-> 0]
\* One more, counted up to two.
OneMore(n) == IF n < 2 THEN n + 1 ELSE n

\* No init_camera call, no close() call to speak of.
NoInit == [ran |-> FALSE, prev |-> FALSE, ops |-> <<>>, close_raised |-> FALSE,
           create_ok |-> FALSE, created |-> FALSE, raised |-> FALSE]
NoClose == [ran |-> FALSE, ops |-> <<>>, stop_raised |-> FALSE,
            close_raised |-> FALSE, raised |-> FALSE]

\* Mutant: capture starts and stops the stream in every mode.
PerRound_Always == TRUE

\* True when hardware control 'LensPosition' is absent or the lens is manual:
\* the stream is started by capture, per round (lines 230, 256).
PerRound == lens # "continuous"

\* ------------------------------------------------------------- Picamera2
\* Picamera2.stop(): fails on a missing attribute, else as the library decides.
CamStop(c, ok) ==
    IF c = "absent" \/ ~ok THEN [cam |-> c, raised |-> TRUE]
    ELSE [cam |-> IF c = "started" THEN "open" ELSE c, raised |-> FALSE]

\* Picamera2.close()
CamClose(c, ok) ==
    IF c = "absent" \/ ~ok THEN [cam |-> c, raised |-> TRUE]
    ELSE [cam |-> "closed", raised |-> FALSE]

\* Picamera2.start(): needs an open handle and hardware that answers.
CamStart(c) ==
    IF c \in {"open", "started"} /\ hw = "up"
    THEN [cam |-> "started", raised |-> FALSE]
    ELSE [cam |-> c, raised |-> TRUE]

\* Picamera2.capture_file(): needs a running stream.
CaptureFileOk == cam = "started" /\ hw = "up"

\* Where the hardware can make init_camera fail.
InitFailPoints ==
    IF hw = "up" THEN {"never"}
    ELSE {"create", "configure"} \cup (IF lens = "continuous" THEN {"start"} ELSE {})

\* ------------------------------------------------------------- init_camera
\* What one init_camera call did: whether a handle existed when it was
\* called, the camera calls it made in order up to the new handle, whether
\* the close raised, whether the hardware let Picamera2() through, whether a
\* new handle was made, and whether the call raised.
InitObs(c, cl, failAt, ops, raised) ==
    [ran |-> TRUE, prev |-> c # "absent", ops |-> ops,
     close_raised |-> cl.raised, create_ok |-> failAt # "create",
     created |-> "create" \in {ops[k] : k \in 1..Len(ops)} /\ failAt # "create",
     raised |-> raised]

\* Mutant: the except around the old handle's close is missing, a close that
\* raises on an existing handle ends init_camera.
init_camera_CloseRaises(c, txs, failAt, close_ok) ==
    LET cl == CamClose(c, close_ok)
        c1 == cl.cam
        ob(raised) == InitObs(c, cl, failAt, <<"close", "create">>, raised)
    IN  IF cl.raised /\ c # "absent"
        THEN [cam |-> c1, txset |-> txs, raised |-> TRUE, emit |-> FALSE,
              obs |-> InitObs(c, cl, failAt, <<"close">>, TRUE)]
        ELSE IF failAt = "create"
        THEN [cam |-> c1, txset |-> txs, raised |-> TRUE, emit |-> FALSE,
              obs |-> ob(TRUE)]
        ELSE IF ~debug_set
        THEN [cam |-> "open", txset |-> txs, raised |-> TRUE, emit |-> TRUE,
              obs |-> ob(TRUE)]
        ELSE IF failAt = "configure"
        THEN [cam |-> "open", txset |-> TRUE, raised |-> TRUE, emit |-> FALSE,
              obs |-> ob(TRUE)]
        ELSE IF lens = "continuous"
        THEN IF failAt = "start"
             THEN [cam |-> "open", txset |-> TRUE, raised |-> TRUE,
                   emit |-> FALSE, obs |-> ob(TRUE)]
             ELSE [cam |-> "started", txset |-> TRUE, raised |-> FALSE,
                   emit |-> FALSE, obs |-> ob(FALSE)]
        ELSE [cam |-> "open", txset |-> TRUE, raised |-> FALSE, emit |-> FALSE,
              obs |-> ob(FALSE)]

\* init_camera(): the handle, tx_resolution, whether it raised, whether it
\* was a debug emission that raised (emit), and what the call did (obs).
init_camera(c, txs, failAt, close_ok) ==
    LET cl == CamClose(c, close_ok)            \* try: self.cam.close() except: pass
        c1 == cl.cam
        ob(raised) == InitObs(c, cl, failAt, <<"close", "create">>, raised)
    IN  IF failAt = "create"                   \* self.cam = Picamera2() raises
        THEN [cam |-> c1, txset |-> txs, raised |-> TRUE, emit |-> FALSE,
              obs |-> ob(TRUE)]
        ELSE IF ~debug_set                     \* self.debug_ptr(...) with None
        THEN [cam |-> "open", txset |-> txs, raised |-> TRUE, emit |-> TRUE,
              obs |-> ob(TRUE)]
        ELSE IF failAt = "configure"           \* configure / set_controls raises
        THEN [cam |-> "open", txset |-> TRUE, raised |-> TRUE, emit |-> FALSE,
              obs |-> ob(TRUE)]
        ELSE IF lens = "continuous"
        THEN IF failAt = "start"               \* self.cam.start() raises
             THEN [cam |-> "open", txset |-> TRUE, raised |-> TRUE,
                   emit |-> FALSE, obs |-> ob(TRUE)]
             ELSE [cam |-> "started", txset |-> TRUE, raised |-> FALSE,
                   emit |-> FALSE, obs |-> ob(FALSE)]
        ELSE [cam |-> "open", txset |-> TRUE, raised |-> FALSE, emit |-> FALSE,
              obs |-> ob(FALSE)]

\* close(), lines 191-199: stop then close, each in its own try whose except
\* only emits a debug message.  The new handle state and what the call did.
close(c, stop_ok, close_ok) ==
    LET st == CamStop(c, stop_ok)
        cl == CamClose(st.cam, close_ok)
    IN  [cam |-> cl.cam,
         obs |-> [ran |-> TRUE, ops |-> <<"stop", "close">>,
                  stop_raised |-> st.raised, close_raised |-> cl.raised,
                  raised |-> FALSE]]

\* ------------------------------------------------------------- __init__
Init ==
    /\ hw \in {"up", "down"}
    /\ tx_empty \in BOOLEAN
    /\ debug_set \in BOOLEAN
    /\ lens \in {"none", "manual", "continuous"}
    /\ num_images \in 1..MaxImages
    /\ main_pc = "ctor"
    /\ init_retries \in 0..MaxRetries
    /\ cam = "absent"
    /\ cam_ready = FALSE
    /\ tx_resolution_set = FALSE
    /\ auto_capture_running = FALSE
    /\ tmp = NoFiles
    /\ pc = "idle"
    /\ start_id = 0
    /\ has_hook = FALSE
    /\ image_id = 0
    /\ i = 0
    /\ capture_successful = "none"
    /\ dest = 0
    /\ shots = <<>>
    /\ rec_log = <<>>
    /\ hook = "none"
    /\ enc = NoEnc
    /\ last_poll = "none"
    /\ enq_log = <<>>
    /\ stop_in_wait = FALSE
    /\ busy_after_stop = FALSE
    /\ settle = FALSE
    /\ init_obs = NoInit
    /\ emit_failed = FALSE
    /\ others = 0
    /\ since_stop = NoneSince
    /\ ctor_obs = CtorBegins(init_retries)
    /\ close_obs = NoClose

\* Mutant: no break after a successful init_camera, the loop goes on until
\* the retries are used up.
CtorAttempt_NoBreak ==
    /\ main_pc = "ctor"
    /\ IF init_retries = 0
       THEN /\ main_pc' = "constructed"
            /\ UNCHANGED <<init_retries, cam, tx_resolution_set, cam_ready,
                           init_obs, emit_failed, ctor_obs>>
       ELSE \E failAt \in InitFailPoints, close_ok \in BOOLEAN :
            LET r == init_camera(cam, tx_resolution_set, failAt, close_ok) IN
            /\ cam' = r.cam
            /\ tx_resolution_set' = r.txset
            /\ cam_ready' = ~r.raised
            /\ init_obs' = r.obs
            /\ emit_failed' = (emit_failed \/ r.emit)
            /\ ctor_obs' = [ctor_obs EXCEPT !.attempts = @ + 1,
                                            !.succeeded = @ \/ ~r.raised,
                                            !.late = @ \/ ctor_obs.succeeded]
            /\ init_retries' = init_retries - 1
            /\ main_pc' = IF init_retries - 1 > 0 THEN "ctor" ELSE "constructed"
    /\ UNCHANGED <<env_vars, cfg_vars, others, close_obs, since_stop, settle,
                   cap_vars, thr_vars, obs_vars, auto_capture_running, pc>>

\* One pass of the constructor's retry loop (lines 109-116).  The local
\* init_retries is dead once the constructor returns and is left at 0.
CtorAttempt ==
    /\ main_pc = "ctor"
    /\ IF init_retries = 0
       THEN /\ main_pc' = "constructed"
            /\ UNCHANGED <<init_retries, cam, tx_resolution_set, cam_ready,
                           init_obs, emit_failed, ctor_obs>>
       ELSE \E failAt \in InitFailPoints, close_ok \in BOOLEAN :
            LET r == init_camera(cam, tx_resolution_set, failAt, close_ok) IN
            /\ cam' = r.cam
            /\ tx_resolution_set' = r.txset
            /\ cam_ready' = ~r.raised
            /\ init_obs' = r.obs
            /\ emit_failed' = (emit_failed \/ r.emit)
            /\ ctor_obs' = [ctor_obs EXCEPT !.attempts = @ + 1,
                                            !.succeeded = @ \/ ~r.raised,
                                            !.late = @ \/ ctor_obs.succeeded]
            /\ IF ~r.raised
               THEN /\ main_pc' = "constructed"          \* break
                    /\ init_retries' = 0
               ELSE /\ init_retries' = init_retries - 1  \* sleep(10)
                    /\ main_pc' = IF init_retries - 1 > 0 THEN "ctor" ELSE "constructed"
    /\ UNCHANGED <<env_vars, cfg_vars, others, close_obs, since_stop, settle,
                   cap_vars, thr_vars, obs_vars, auto_capture_running, pc>>

\* ------------------------------------------------------------- environment
\* The camera hardware stops or starts answering.
HwChange ==
    /\ hw' = IF hw = "up" THEN "down" ELSE "up"
    /\ UNCHANGED <<tx_empty, cfg_vars, aux_vars, new_obs, obj_vars, cap_vars,
                   thr_vars, obs_vars,
                   auto_capture_running, pc>>

\* The transmitter has sent the queued image.
TxDrain ==
    /\ ~tx_empty
    /\ tx_empty' = TRUE
    /\ UNCHANGED <<hw, cfg_vars, aux_vars, new_obs, obj_vars, cap_vars,
                   thr_vars, obs_vars,
                   auto_capture_running, pc>>

\* ------------------------------------------------------------- run, stop
ThreadActive == pc \notin {"idle", "done", "crashed"}
\* The thread is in the body of the backpressure wait: it has an encoded
\* file, has found the queue non-empty and has not left the while loop.
InWait == pc \in {"wait_poll", "wait_check"} /\ last_poll = "busy"

\* run(): set the flag and start a thread on auto_capture.  The caller
\* starts a loop only when none is running.  The new thread has observed
\* nothing yet.
Run ==
    /\ main_pc = "constructed"
    /\ ~ThreadActive
    /\ auto_capture_running' = TRUE
    /\ pc' = "start"
    /\ \E sid \in StartIds, hk \in BOOLEAN :
         /\ start_id' = sid
         /\ has_hook' = hk
    /\ i' = 0
    /\ capture_successful' = "none"
    /\ dest' = 0
    /\ shots' = <<>>
    /\ rec_log' = <<>>
    /\ hook' = "none"
    /\ enc' = NoEnc
    /\ last_poll' = "none"
    /\ enq_log' = <<>>
    /\ stop_in_wait' = FALSE
    /\ busy_after_stop' = FALSE
    /\ settle' = FALSE
    /\ init_obs' = NoInit
    /\ close_obs' = NoClose
    /\ since_stop' = NoneSince
    /\ ctor_obs' = NoCtor
    /\ UNCHANGED <<env_vars, cfg_vars, others, emit_failed, obj_vars, tmp,
                   image_id>>

\* stop()
Stop ==
    /\ main_pc = "constructed"
    /\ auto_capture_running' = FALSE
    /\ stop_in_wait' = (stop_in_wait \/ (InWait /\ auto_capture_running))
    /\ busy_after_stop' =
         (busy_after_stop \/ (pc = "wait_check" /\ auto_capture_running))
    /\ since_stop' = IF auto_capture_running THEN NoneSince ELSE since_stop
    /\ UNCHANGED <<env_vars, cfg_vars, others, close_obs, ctor_obs, new_obs,
                   obj_vars,
                   cap_vars, thr_vars, pc,
                   rec_log, hook, enc, last_poll, enq_log>>

\* ------------------------------------------------------------- auto_capture
\* image_id = start_id (line 339): the thread begins.
Start ==
    /\ pc = "start"
    /\ image_id' = start_id
    /\ pc' = "loop"
    /\ UNCHANGED <<env_vars, cfg_vars, aux_vars, new_obs, obj_vars, cap_vars,
                   start_id, has_hook,
                   obs_vars, auto_capture_running>>

\* Mutant: a cycle on a session whose last open failed goes to the reopen
\* and attempts no capture.
LoopTop_ChecksReady ==
    /\ pc = "loop"
    /\ IF auto_capture_running
       THEN /\ Len(enq_log) < MaxCycles
            /\ pc' = IF cam_ready THEN "capture" ELSE "reset_close"
            /\ i' = 0
            /\ capture_successful' = "none"
            /\ dest' = 0
            /\ shots' = <<>>
            /\ rec_log' = <<>>
            /\ hook' = "none"
            /\ enc' = NoEnc
            /\ last_poll' = "none"
            /\ settle' = FALSE
            /\ init_obs' = NoInit
       ELSE /\ pc' = "done"           \* line 424
            /\ UNCHANGED <<i, capture_successful, dest, shots, rec_log, hook,
                           enc, last_poll, settle, init_obs>>
    /\ UNCHANGED <<env_vars, cfg_vars, aux_vars, emit_failed, obj_vars, tmp,
                   thr_vars, enq_log,
                   stop_in_wait, busy_after_stop, auto_capture_running>>

\* Mutant: "while True": the flag is read in the backpressure wait only.
LoopTop_WhileTrue ==
    /\ pc = "loop"
    /\ IF TRUE
       THEN /\ Len(enq_log) < MaxCycles
            /\ pc' = "capture"
            /\ i' = 0
            /\ capture_successful' = "none"
            /\ dest' = 0
            /\ shots' = <<>>
            /\ rec_log' = <<>>
            /\ hook' = "none"
            /\ enc' = NoEnc
            /\ last_poll' = "none"
            /\ settle' = FALSE
            /\ init_obs' = NoInit
       ELSE /\ pc' = "done"           \* line 424
            /\ UNCHANGED <<i, capture_successful, dest, shots, rec_log, hook,
                           enc, last_poll, settle, init_obs>>
    /\ UNCHANGED <<env_vars, cfg_vars, aux_vars, emit_failed, obj_vars, tmp,
                   thr_vars, enq_log,
                   stop_in_wait, busy_after_stop, auto_capture_running>>

\* while self.auto_capture_running (line 341), sleep(delay) and the file name.
\* A new cycle starts with nothing observed yet.
LoopTop ==
    /\ pc = "loop"
    /\ IF auto_capture_running
       THEN /\ Len(enq_log) < MaxCycles
            /\ pc' = "capture"
            /\ i' = 0
            /\ capture_successful' = "none"
            /\ dest' = 0
            /\ shots' = <<>>
            /\ rec_log' = <<>>
            /\ hook' = "none"
            /\ enc' = NoEnc
            /\ last_poll' = "none"
            /\ settle' = FALSE
            /\ init_obs' = NoInit
       ELSE /\ pc' = "done"           \* line 424
            /\ UNCHANGED <<i, capture_successful, dest, shots, rec_log, hook,
                           enc, last_poll, settle, init_obs>>
    /\ UNCHANGED <<env_vars, cfg_vars, aux_vars, emit_failed, obj_vars, tmp,
                   thr_vars, enq_log,
                   stop_in_wait, busy_after_stop, auto_capture_running>>

\* The capture round failed: capture returned False, or raised into the
\* except of line 352.  The recovery branch is next.
CaptureFailed ==
    /\ capture_successful' = "fail"
    /\ pc' = "reset_stop"

\* Mutant: the settle delay sits inside the if that starts the stream.
SettleDelay_InsideIf(per_round) == per_round

\* time.sleep(3) at line 239 stands after the if of line 229, not in it:
\* it runs whether or not this round started the stream.
SettleDelay(per_round) == TRUE

\* capture(), lines 209-239: settings, the stream started per round, and
\* the settle delay.
CaptureBegin ==
    /\ pc = "capture"
    /\ since_stop' = IF auto_capture_running THEN since_stop
                     ELSE [since_stop EXCEPT !.rounds = OneMore(@)]
    /\ IF cam = "absent" \/ (lens = "manual" /\ ~debug_set)
       THEN \* self.cam is no attribute (209), or self.debug_ptr is None (222)
            /\ CaptureFailed
            /\ emit_failed' = (emit_failed \/ cam # "absent")
            /\ UNCHANGED <<cam, i, settle>>
       ELSE IF PerRound
       THEN LET r == CamStart(cam) IN
            IF r.raised
            THEN /\ CaptureFailed       \* sleep(1); return False
                 /\ UNCHANGED <<cam, i, settle, emit_failed>>
            ELSE /\ cam' = r.cam
                 /\ settle' = SettleDelay(TRUE)
                 /\ i' = 0
                 /\ pc' = "shot"
                 /\ UNCHANGED <<capture_successful, emit_failed>>
       ELSE /\ settle' = SettleDelay(FALSE)
            /\ i' = 0
            /\ pc' = "shot"
            /\ UNCHANGED <<cam, capture_successful, emit_failed>>
    /\ UNCHANGED <<env_vars, cfg_vars, others, close_obs, ctor_obs, init_obs,
                   main_pc,
                   init_retries, cam_ready,
                   tx_resolution_set, tmp, dest, shots, thr_vars, obs_vars,
                   auto_capture_running>>

\* Mutant: a capture_file that raises is logged and the for loop goes on.
CaptureShot_KeepsGoing ==
    /\ pc = "shot"
    /\ \E sz \in Sizes :
         LET got == IF CaptureFileOk THEN sz ELSE 0 IN
         /\ tmp' = IF got = 0 THEN tmp ELSE [tmp EXCEPT ![i] = {got}]
         /\ shots' = Append(shots, got)
         /\ i' = i + 1
         /\ pc' = IF i + 1 < num_images THEN "shot" ELSE "cap_finish"
         /\ UNCHANGED capture_successful
    /\ UNCHANGED <<env_vars, cfg_vars, aux_vars, new_obs, obj_vars, dest,
                   thr_vars, obs_vars,
                   auto_capture_running>>

\* One pass of "for i in range(self.num_images)", lines 242-254.
CaptureShot ==
    /\ pc = "shot"
    /\ IF CaptureFileOk
       THEN \E sz \in Sizes :
            /\ tmp' = [tmp EXCEPT ![i] = {sz}]
            /\ shots' = Append(shots, sz)
            /\ i' = i + 1
            /\ pc' = IF i + 1 < num_images THEN "shot" ELSE "cap_finish"
            /\ UNCHANGED capture_successful
       ELSE /\ shots' = Append(shots, 0)
            /\ CaptureFailed           \* return False
            /\ tmp' = LeftBehind(tmp)
            /\ UNCHANGED i
    /\ UNCHANGED <<env_vars, cfg_vars, aux_vars, new_obs, obj_vars, dest,
                   thr_vars, obs_vars,
                   auto_capture_running>>

\* glob.glob("%s_*.jpg"): the temp files that exist, in any order.
PicLists ==
    LET have == {k \in DOMAIN tmp : tmp[k] # {}} IN
    {pl \in [1..Cardinality(have) -> have] :
        \A a, b \in DOMAIN pl : a # b => pl[a] # pl[b]}

\* os.path.getsize of each temp file.
GetSizes == {gs \in [DOMAIN tmp -> Sizes \cup {0}] :
               \A k \in DOMAIN tmp : IF tmp[k] = {} THEN gs[k] = 0 ELSE gs[k] \in tmp[k]}

MaxOf(S) == CHOOSE m \in S : \A x \in S : x <= m

\* Mutant: the first file glob lists, whatever its size.
largest_pic_first(pic_list, getsize) == pic_list[1]

\* pic_list[pic_sizes.index(max(pic_sizes))], lines 263-267.
largest_pic(pic_list, getsize) ==
    LET pic_sizes == [k \in DOMAIN pic_list |-> getsize[pic_list[k]]]
        mx == MaxOf({pic_sizes[k] : k \in DOMAIN pic_list})
        idx == CHOOSE k \in DOMAIN pic_list :
                 /\ pic_sizes[k] = mx
                 /\ \A j \in DOMAIN pic_list : j < k => pic_sizes[j] # mx
    IN  pic_list[idx]

\* Mutant: the temp files are not removed.
RemoveTemp_Keep(files) == files

\* os.system("rm %s_*.jpg"), line 273.
RemoveTemp(files) == [k \in DOMAIN files |-> {}]

\* capture(), lines 256-275: stop a per-round stream, pick the largest file,
\* copy it to the destination, remove the temp files, return True.
CaptureFinish ==
    /\ pc = "cap_finish"
    /\ \E stop_ok \in BOOLEAN, pic_list \in PicLists, getsize \in GetSizes :
         LET r == IF PerRound THEN CamStop(cam, stop_ok)
                  ELSE [cam |-> cam, raised |-> FALSE] IN
         IF r.raised
         THEN /\ CaptureFailed          \* self.cam.stop() raises out of capture
              /\ tmp' = LeftBehind(tmp)
              /\ UNCHANGED <<cam, dest>>
         ELSE /\ cam' = r.cam
              /\ dest' = getsize[largest_pic(pic_list, getsize)]   \* cp
              /\ tmp' = RemoveTemp(tmp)
              /\ capture_successful' = "ok"
              /\ pc' = "postproc"
    /\ UNCHANGED <<env_vars, cfg_vars, aux_vars, new_obs, main_pc,
                   init_retries, cam_ready,
                   tx_resolution_set, i, shots, thr_vars, obs_vars,
                   auto_capture_running>>

\* Recovery, lines 362-366: try self.cam.stop().
ResetStop ==
    /\ pc = "reset_stop"
    /\ \E ok \in BOOLEAN :
         LET r == CamStop(cam, ok) IN
         /\ cam' = r.cam
         /\ rec_log' = Append(rec_log, [op |-> "stop", raised |-> r.raised])
    /\ pc' = "reset_close"
    /\ shots' = <<>>                 \* the round is over, capture's
    /\ i' = 0                       \* locals are gone
    /\ settle' = FALSE
    /\ UNCHANGED <<env_vars, cfg_vars, aux_vars, init_obs, emit_failed, main_pc,
                   init_retries, cam_ready,
                   tx_resolution_set, tmp, capture_successful, dest,
                   thr_vars, hook, enc, last_poll, enq_log, stop_in_wait,
                   busy_after_stop, auto_capture_running>>

\* Mutant: a close that raises ends the recovery, init_camera is not tried.
ResetClose_SkipsInit ==
    /\ pc = "reset_close"
    /\ \E ok \in BOOLEAN :
         LET r == CamClose(cam, ok) IN
         /\ cam' = r.cam
         /\ rec_log' = Append(rec_log, [op |-> "close", raised |-> r.raised])
         /\ pc' = IF r.raised THEN "loop" ELSE "reset_init"
    /\ UNCHANGED <<env_vars, cfg_vars, aux_vars, new_obs, main_pc,
                   init_retries, cam_ready,
                   tx_resolution_set, cap_vars, thr_vars, hook, enc, last_poll,
                   enq_log, stop_in_wait, busy_after_stop, auto_capture_running>>

\* Recovery, lines 368-371: try self.cam.close().
ResetClose ==
    /\ pc = "reset_close"
    /\ \E ok \in BOOLEAN :
         LET r == CamClose(cam, ok) IN
         /\ cam' = r.cam
         /\ rec_log' = Append(rec_log, [op |-> "close", raised |-> r.raised])
    /\ pc' = "reset_init"
    /\ UNCHANGED <<env_vars, cfg_vars, aux_vars, new_obs, main_pc,
                   init_retries, cam_ready,
                   tx_resolution_set, cap_vars, thr_vars, hook, enc, last_poll,
                   enq_log, stop_in_wait, busy_after_stop, auto_capture_running>>

\* Recovery, lines 373-379: try self.init_camera(), then continue.
ResetInit ==
    /\ pc = "reset_init"
    /\ \E failAt \in InitFailPoints, close_ok \in BOOLEAN :
         LET r == init_camera(cam, tx_resolution_set, failAt, close_ok) IN
         /\ cam' = r.cam
         /\ tx_resolution_set' = r.txset
         /\ cam_ready' = ~r.raised
         /\ rec_log' = Append(rec_log, [op |-> "init", raised |-> r.raised])
         /\ init_obs' = r.obs
         /\ emit_failed' = (emit_failed \/ r.emit)
    /\ pc' = "loop"
    /\ UNCHANGED <<env_vars, cfg_vars, aux_vars, settle, main_pc, init_retries,
                   cap_vars,
                   thr_vars, hook, enc, last_poll, enq_log, stop_in_wait,
                   busy_after_stop, auto_capture_running>>

\* Mutant: a hook that raises ends the cycle like a failed encode (continue).
PostProcess_RaiseEndsCycle ==
    /\ pc = "postproc"
    /\ IF has_hook
       THEN \E raised \in BOOLEAN :
              /\ hook' = IF raised THEN "raised" ELSE "ok"
              /\ pc' = IF raised THEN "loop" ELSE "ssdvify"
       ELSE /\ hook' = "none"
            /\ pc' = "ssdvify"
    /\ shots' = <<>>
    /\ dest' = 0
    /\ settle' = FALSE
    /\ UNCHANGED <<env_vars, cfg_vars, aux_vars, init_obs, emit_failed,
                   obj_vars, tmp, i, capture_successful,
                   thr_vars, rec_log, enc, last_poll, enq_log, stop_in_wait,
                   busy_after_stop, auto_capture_running>>

\* Lines 381-388: the optional post-process hook, its exception swallowed.
PostProcess ==
    /\ pc = "postproc"
    /\ IF has_hook
       THEN \E raised \in BOOLEAN : hook' = IF raised THEN "raised" ELSE "ok"
       ELSE hook' = "none"
    /\ pc' = "ssdvify"
    /\ shots' = <<>>                 \* the round is over: the hook may have
    /\ dest' = 0                     \* rewritten the file in place
    /\ settle' = FALSE
    /\ UNCHANGED <<env_vars, cfg_vars, aux_vars, init_obs, emit_failed,
                   obj_vars, tmp, i, capture_successful,
                   thr_vars, rec_log, enc, last_poll, enq_log, stop_in_wait,
                   busy_after_stop, auto_capture_running>>

\* Mutant: the id goes into the command line as passed, not wrapped.
ssdvify_NoWrap(id, resize_rc, ssdv_rc) ==
    IF resize_rc # 0
    THEN [resize_calls |-> 1, resize_rc |-> resize_rc, ssdv_calls |-> 0,
          ssdv_rc |-> 0, id |-> 0, result |-> "FAIL"]
    ELSE [resize_calls |-> 1, resize_rc |-> resize_rc, ssdv_calls |-> 1,
          ssdv_rc |-> ssdv_rc, id |-> id,
          result |-> IF ssdv_rc # 0 THEN "FAIL" ELSE "picam_temp.ssdv"]

\* Mutant: the resize's exit code is not looked at, the encoder always runs.
ssdvify_IgnoresResize(id, resize_rc, ssdv_rc) ==
    [resize_calls |-> 1, resize_rc |-> resize_rc, ssdv_calls |-> 1,
     ssdv_rc |-> ssdv_rc, id |-> id % IdModulus,
     result |-> IF ssdv_rc # 0 THEN "FAIL" ELSE "picam_temp.ssdv"]

\* ssdvify(filename, image_id), lines 291-317, given the exit codes of the
\* resize and of the ssdv encoder: how often each tool was called and what it
\* returned, the id in the ssdv command line, and what ssdvify returns.
ssdvify(id, resize_rc, ssdv_rc) ==
    LET wrapped == id % IdModulus IN
    IF resize_rc # 0
    THEN [resize_calls |-> 1, resize_rc |-> resize_rc, ssdv_calls |-> 0,
          ssdv_rc |-> 0, id |-> 0, result |-> "FAIL"]
    ELSE [resize_calls |-> 1, resize_rc |-> resize_rc, ssdv_calls |-> 1,
          ssdv_rc |-> ssdv_rc, id |-> wrapped,
          result |-> IF ssdv_rc # 0 THEN "FAIL" ELSE "picam_temp.ssdv"]

\* Mutant: an encode FAIL is treated like a failed capture and the camera
\* is reset.
Ssdvify_ResetOnFail ==
    /\ pc = "ssdvify"
    /\ IF ~tx_resolution_set
       THEN /\ pc' = "crashed"
            /\ UNCHANGED enc
       ELSE \E resize_rc \in ExitCodes, ssdv_rc \in ExitCodes :
            /\ enc' = ssdvify(image_id, resize_rc, ssdv_rc)
            /\ pc' = IF enc'.result = "FAIL" THEN "reset_stop" ELSE "wait_poll"
    /\ UNCHANGED <<env_vars, cfg_vars, aux_vars, new_obs, obj_vars, cap_vars,
                   thr_vars, rec_log,
                   hook, last_poll, enq_log, stop_in_wait, busy_after_stop,
                   auto_capture_running>>

\* Lines 390-400: ssdvify the image; on FAIL sleep and continue.  The resize
\* command line reads self.tx_resolution, which only init_camera assigns.
Ssdvify ==
    /\ pc = "ssdvify"
    /\ IF ~tx_resolution_set
       THEN /\ pc' = "crashed"         \* AttributeError leaves auto_capture
            /\ UNCHANGED enc
       ELSE \E resize_rc \in ExitCodes, ssdv_rc \in ExitCodes :
            /\ enc' = ssdvify(image_id, resize_rc, ssdv_rc)
            /\ pc' = IF enc'.result = "FAIL" THEN "loop" ELSE "wait_poll"
    /\ UNCHANGED <<env_vars, cfg_vars, aux_vars, new_obs, obj_vars, cap_vars,
                   thr_vars, rec_log,
                   hook, last_poll, enq_log, stop_in_wait, busy_after_stop,
                   auto_capture_running>>

\* while tx.image_queue_empty() == False (line 404): one poll.
WaitPoll ==
    /\ pc = "wait_poll"
    /\ IF tx_empty
       THEN /\ last_poll' = "empty"
            /\ pc' = "enqueue"
            /\ UNCHANGED busy_after_stop
       ELSE /\ last_poll' = "busy"
            /\ pc' = "wait_check"
            /\ busy_after_stop' = (busy_after_stop \/ stop_in_wait)
    /\ UNCHANGED <<env_vars, cfg_vars, aux_vars, new_obs, obj_vars, cap_vars,
                   thr_vars, rec_log,
                   hook, enc, enq_log, stop_in_wait, auto_capture_running>>

\* Mutant: an "if" where the code has "while": after one sleep the loop goes on
\* to the enqueue without polling the queue again.
WaitCheck_NoRepoll ==
    /\ pc = "wait_check"
    /\ pc' = IF auto_capture_running = FALSE THEN "done" ELSE "enqueue"
    /\ UNCHANGED <<env_vars, cfg_vars, aux_vars, new_obs, obj_vars, cap_vars,
                   thr_vars, obs_vars,
                   auto_capture_running>>

\* Mutant: the wait never looks at the running flag.
WaitCheck_IgnoresFlag ==
    /\ pc = "wait_check"
    /\ pc' = "wait_poll"
    /\ UNCHANGED <<env_vars, cfg_vars, aux_vars, new_obs, obj_vars, cap_vars,
                   thr_vars, obs_vars,
                   auto_capture_running>>

\* Lines 405-407: sleep(0.05), return when the flag is down.
WaitCheck ==
    /\ pc = "wait_check"
    /\ pc' = IF auto_capture_running = FALSE THEN "done" ELSE "wait_poll"
    /\ UNCHANGED <<env_vars, cfg_vars, aux_vars, new_obs, obj_vars, cap_vars,
                   thr_vars, obs_vars,
                   auto_capture_running>>

\* Mutant: the increment without the wrap.
NextId_NoWrap(id) == id + 1

\* image_id = (image_id + 1) % 256, line 416.
NextId(id) == (id + 1) % IdModulus

\* Lines 409-420: queue the file, then advance image_id.
Enqueue ==
    /\ pc = "enqueue"
    /\ tx_empty' = FALSE
    /\ enq_log' = Append(enq_log, enc.id)
    /\ image_id' = NextId(image_id)
    /\ pc' = "loop"
    /\ since_stop' = IF auto_capture_running THEN since_stop
                     ELSE [since_stop EXCEPT !.enqs = OneMore(@)]
    /\ UNCHANGED <<hw, cfg_vars, others, close_obs, ctor_obs, new_obs,
                   obj_vars, cap_vars,
                   start_id, has_hook,
                   rec_log, hook, enc, last_poll, stop_in_wait,
                   busy_after_stop, auto_capture_running>>

\* ------------------------------------------------------------- specification
Next ==
    \/ CtorAttempt
    \/ HwChange
    \/ TxDrain
    \/ Run
    \/ Stop
    \/ Start
    \/ LoopTop
    \/ CaptureBegin
    \/ CaptureShot
    \/ CaptureFinish
    \/ ResetStop
    \/ ResetClose
    \/ ResetInit
    \/ PostProcess
    \/ Ssdvify
    \/ WaitPoll
    \/ WaitCheck
    \/ Enqueue

Spec == Init /\ [][Next]_vars

\* ------------------------------------------------------------- properties
\* An image file is put on the transmit queue in this step.
Enqueues == Len(enq_log') > Len(enq_log)

\* C1: every enqueue of auto_capture comes right after a poll of the
\* queue's empty-check that reported "empty": the result of the most recent
\* poll is never "non-empty" (nor missing) when the file is queued.
C1_EnqueueAfterEmptyPoll ==
    [][(Enqueues \/ (tx_empty /\ ~tx_empty')) => last_poll = "empty"]_vars

\* A second image has been queued: the loop had to wait for the first to drain.
C1_Witness ==
    /\ pc = "loop"
    /\ Len(enq_log) = 2
    /\ last_poll = "empty"
    /\ ~tx_empty

\* C2 as claimed: once stop() has cleared the flag inside the backpressure
\* wait, the loop does not enqueue.
C2_StopInWaitNeverEnqueues ==
    [][stop_in_wait => ~Enqueues]_vars

\* C2, amended: if stop() clears the flag inside the backpressure wait and
\* the poll that precedes the loop's next look at the flag reports the queue
\* non-empty, the loop returns at that look without enqueuing; it is then
\* at the flag check or has exited, never at the enqueue.
C2_StopSeenInWaitExits ==
    busy_after_stop => pc \in {"wait_check", "done"}

\* The loop has returned from the wait with an encoded file it never queued.
C2_Witness ==
    /\ busy_after_stop
    /\ pc = "done"
    /\ enc.result = "picam_temp.ssdv"
    /\ last_poll = "busy"

RECURSIVE IdAfter(_)
\* IdAfter(n)[id]: the id after n more successful cycles, n a power of 2,
\* got by applying NextId n times.
IdAfter(n) ==
    LET ids == 0..255 IN
    IF n = 1 THEN [id \in ids |-> NextId(id)]
    ELSE LET half == IdAfter(n \div 2) IN
         [id \in ids |-> IF half[id] \in ids THEN half[half[id]] ELSE half[id]]

\* C3: image_id changes only by image_id := (image_id + 1) mod 256 in the
\* step that enqueues (and is set from start_id when the thread begins), so a
\* cycle ending in a capture failure, an encode FAIL or a stop in the wait
\* leaves it alone; every enqueue advances it; the ids of files queued one
\* after the other differ by 1 modulo 256; and 256 more successful cycles
\* bring the same id back.
C3_IdAdvancesOnlyOnEnqueue ==
    /\ [][/\ image_id' # image_id =>
               \/ pc = "start"
               \/ /\ pc = "enqueue"
                  /\ Enqueues
                  /\ image_id' = (image_id + 1) % 256
          /\ Enqueues => image_id' = (image_id + 1) % 256]_vars
    /\ [](\A k \in 1..(Len(enq_log) - 1) :
             enq_log[k + 1] = (enq_log[k] + 1) % 256)
    /\ [](pc = "enqueue" =>
             LET id == image_id % 256 IN
             /\ IdAfter(256)[id] = id
             /\ IdAfter(128)[id] # id)

\* Id 255 has been queued, the id has wrapped to 0, and the cycle after
\* that ended in an encode FAIL with the id still at 0.
C3_Witness ==
    /\ pc = "loop"
    /\ enq_log = <<255>>
    /\ image_id = 0
    /\ enc.result = "FAIL"

\* C4: the image id in the ssdv command line is in 0..255, whatever start_id
\* was and however many cycles have run.
C4_EncoderIdInRange ==
    enc.ssdv_calls > 0 => (enc.id >= 0 /\ enc.id <= 255)

\* The first cycle of a loop started with start_id = 300 encodes id 44.
C4_Witness ==
    /\ enc.ssdv_calls = 1
    /\ image_id = 300
    /\ enc.id = 44

\* The camera calls the recovery branch has attempted in this cycle.
RecOps == [k \in DOMAIN rec_log |-> rec_log[k].op]

\* C5: a cycle whose capture round failed has attempted stop, close and
\* init_camera, in that order, by the time it leaves the recovery branch,
\* whichever of them raised; a capture is only attempted in a cycle with no
\* failed round behind it.
C5_FailureThenReset ==
    /\ (capture_successful = "fail"
        /\ pc \notin {"reset_stop", "reset_close", "reset_init"})
       => RecOps = <<"stop", "close", "init">>
    /\ pc \in {"capture", "shot", "cap_finish"} => capture_successful = "none"

\* Stop, close and the reopen all raised, and the loop is about to go round.
C5_Witness ==
    /\ pc = "loop"
    /\ auto_capture_running
    /\ capture_successful = "fail"
    /\ Len(rec_log) = 3
    /\ \A k \in 1..3 : rec_log[k].raised

\* C6 as claimed: the loop has ended only if the running flag is down.
C6_LoopEndsOnlyOnStop ==
    pc \in {"done", "crashed"} => ~auto_capture_running

\* The sizes of the files of a round, all written.
ShotSizes == {shots[k] : k \in DOMAIN shots}
AllDistinct == Cardinality(ShotSizes) = Len(shots)

\* C7: when capture returns True it has made num_images captures, and if
\* their files have pairwise distinct sizes the file copied to the destination
\* is the one with the largest size.
C7_LargestFileWins ==
    pc = "postproc" =>
        /\ capture_successful = "ok"
        /\ Len(shots) = num_images
        /\ 0 \notin ShotSizes
        /\ AllDistinct => (dest \in ShotSizes /\ \A sz \in ShotSizes : sz <= dest)

\* The round of the spec's scenario: 10000, 15000 and 12000 bytes.
C7_Witness ==
    /\ pc = "postproc"
    /\ shots = <<10000, 15000, 12000>>
    /\ dest = 15000

\* Temp files this round has written.
Written == {k \in DOMAIN tmp : k + 1 \in DOMAIN shots /\ shots[k + 1] # 0}
CaptureReturned == pc \in {"postproc", "reset_stop"}

\* C8 as claimed: when capture has returned, with success or failure, none
\* of the temp files the round wrote exists.
C8_NoTempFileLeft ==
    CaptureReturned => \A k \in Written : tmp[k] = {}

\* C8, amended: when capture returns True no temp file exists; when it
\* returns False or raises, every temp file the round wrote is still there.
C8_TempFilesRemovedOnSuccess ==
    /\ pc = "postproc" => \A k \in DOMAIN tmp : tmp[k] = {}
    /\ pc = "reset_stop" => \A k \in Written : tmp[k] # {}

\* Attempt 3 of 3 raised: capture returned False and two files are left.
C8_Witness ==
    /\ pc = "reset_stop"
    /\ Len(shots) = 3
    /\ shots[3] = 0
    /\ tmp[0] # {} /\ tmp[1] # {}

\* C9: if attempt k of a round fails it is the last attempt of the round,
\* nothing is selected or copied, the round counts as failed and the loop is
\* in its recovery branch.
C9_FailedAttemptAbortsRound ==
    \A k \in DOMAIN shots :
        shots[k] = 0 =>
            /\ Len(shots) = k
            /\ dest = 0
            /\ capture_successful = "fail"
            /\ pc = "reset_stop"

\* Attempt 2 of 3 raised.
C9_Witness ==
    /\ pc = "reset_stop"
    /\ num_images = 3
    /\ Len(shots) = 2
    /\ shots[1] # 0
    /\ shots[2] = 0

\* C10: ssdvify returns a path only if resize and encoder each ran once and
\* exited 0; after a failed resize the encoder is not run and the result is
\* FAIL; a failed encoder gives FAIL; neither tool is run twice in a call.
C10_EncodeNeedsBothSteps ==
    /\ enc.result \in {"none", "FAIL", "picam_temp.ssdv"}
    /\ enc.result = "picam_temp.ssdv" =>
          /\ enc.resize_calls = 1 /\ enc.resize_rc = 0
          /\ enc.ssdv_calls = 1 /\ enc.ssdv_rc = 0
    /\ (enc.resize_calls > 0 /\ enc.resize_rc # 0) =>
          (enc.ssdv_calls = 0 /\ enc.result = "FAIL")
    /\ (enc.ssdv_calls > 0 /\ enc.ssdv_rc # 0) => enc.result = "FAIL"
    /\ enc.resize_calls <= 1
    /\ enc.ssdv_calls <= 1

\* A resize that failed: no encoder run, FAIL, and the loop goes round.
C10_Witness ==
    /\ pc = "loop"
    /\ enc.resize_calls = 1
    /\ enc.resize_rc # 0
    /\ enc.ssdv_calls = 0
    /\ enc.result = "FAIL"

\* ------------------------------------------------------------------ C11
\* The cycle's image has been enqueued and the id has moved on.
EnqueuedThisCycle ==
    pc \in {"loop", "done"} /\ enc.result = "picam_temp.ssdv" /\ last_poll = "empty"

\* C11: in a cycle whose capture succeeded and whose post-process hook
\* raised, the cycle goes on: the loop is about to call ssdvify or has called
\* it in this same cycle, the id in the encoder's command line is the cycle's
\* image_id, and no step of the camera reset has run.
C11_HookFailureKeepsCycle ==
    hook = "raised" =>
        /\ capture_successful = "ok"
        /\ rec_log = <<>>
        /\ pc \notin {"reset_stop", "reset_close", "reset_init"}
        /\ pc \in {"ssdvify", "crashed"} \/ enc.resize_calls = 1
        /\ enc.ssdv_calls = 1 =>
             enc.id = IF EnqueuedThisCycle
                      THEN enq_log[Len(enq_log)]
                      ELSE image_id % IdModulus

\* The hook raised and the encoder ran on the picture in the same cycle.
C11_Witness ==
    /\ hook = "raised"
    /\ pc = "wait_poll"
    /\ enc.ssdv_calls = 1
    /\ enc.result = "picam_temp.ssdv"
    /\ enc.id = image_id % IdModulus

\* ------------------------------------------------------------------ C12
\* A step of the auto_capture thread.
ThreadStep ==
    \/ Start \/ LoopTop \/ CaptureBegin \/ CaptureShot \/ CaptureFinish
    \/ ResetStop \/ ResetClose \/ ResetInit \/ PostProcess \/ Ssdvify
    \/ WaitPoll \/ WaitCheck \/ Enqueue

\* Rounds of LiveImages captures at most.
LiveInit == Init /\ num_images <= LiveImages

\* The thread is scheduled and every blocking call it makes (sleep, the
\* camera calls, os.system, the queue poll) returns.  Nothing is assumed of
\* the environment: the queue need never drain, the hardware need never
\* answer.
LiveSpec == LiveInit /\ [][Next]_vars /\ WF_vars(ThreadStep)

\* C12: once stop() has cleared the flag while the loop is active, the loop
\* exits, whatever the transmit queue does.
C12_StopLeadsToExit ==
    (ThreadActive /\ ~auto_capture_running) ~> ~ThreadActive

\* The loop has left the backpressure wait on the flag, the queue still
\* non-empty.
C12_Witness ==
    /\ pc = "done"
    /\ ~auto_capture_running
    /\ last_poll = "busy"
    /\ ~tx_empty
    /\ enc.result = "picam_temp.ssdv"

\* ------------------------------------------------------------------ C13
\* auto_capture threads that have been started and have not returned.
ActiveLoops == (IF ThreadActive THEN 1 ELSE 0) + others

\* run() called while a loop is active (lines 441-453 test nothing): the
\* flag is set and one more thread is started on auto_capture.  The model
\* follows the first thread step by step and counts the others.
RunAgain ==
    /\ main_pc = "constructed"
    /\ ThreadActive
    /\ ActiveLoops < MaxThreads
    /\ auto_capture_running' = TRUE
    /\ others' = others + 1
    /\ since_stop' = NoneSince
    /\ UNCHANGED <<env_vars, cfg_vars, obj_vars, cap_vars, thr_vars, obs_vars,
                   new_obs, close_obs, ctor_obs, pc>>

\* A thread that is not followed reads the flag false (line 341 or 406) and
\* returns.
OtherExit ==
    /\ others > 0
    /\ ~auto_capture_running
    /\ others' = others - 1
    /\ UNCHANGED <<env_vars, cfg_vars, obj_vars, cap_vars, thr_vars, obs_vars,
                   new_obs, close_obs, since_stop, ctor_obs,
                   auto_capture_running, pc>>

NextAnyCaller == Next \/ RunAgain \/ OtherExit

\* The class used by a caller that calls run() and stop() in any order.
AnyCallerSpec == Init /\ [][NextAnyCaller]_vars

\* C13: whatever run() and stop() calls are made, at most one auto_capture
\* loop is active at a time.
C13_AtMostOneLoop == ActiveLoops <= 1

FalseAfterShot ==
    pc = "reset_stop" /\ shots # <<>> /\ shots[Len(shots)] = 0
\* capture returned False at line 237, or raised before it started anything.
FalseBeforeShot == pc = "reset_stop" /\ shots = <<>>

\* C15 as claimed: when the stream is started per round, it is not running
\* whenever capture has returned, True or False.
C15_StreamOffAfterCapture ==
    (lens # "continuous" /\ (pc = "postproc" \/ FalseAfterShot \/ FalseBeforeShot))
        => cam # "started"

\* C15, amended: per round, the stream is off when capture has returned True
\* and is still running when capture has returned False from the capture
\* loop; init_camera leaves it off.  In continuous-AF mode a successful
\* init_camera leaves the stream running and no step of capture changes it.
C15_StreamPerMode ==
    /\ [](lens # "continuous" /\ pc = "postproc" => cam = "open")
    /\ [](lens # "continuous" /\ FalseAfterShot => cam = "started")
    /\ [](init_obs.ran /\ ~init_obs.raised =>
            cam = IF lens = "continuous" THEN "started" ELSE "open")
    /\ [][lens = "continuous" /\ pc \in {"capture", "shot", "cap_finish"}
            => cam' = cam]_vars

\* Per round: the second capture_file raised, capture has returned False and
\* the stream it started is still running.
C15_Witness ==
    /\ lens = "none"
    /\ FalseAfterShot
    /\ Len(shots) = 2
    /\ cam = "started"

\* ------------------------------------------------------------------ C16
\* As LiveSpec, and a camera library that lets the final cam.stop() of a
\* round through whenever the round keeps getting that far: the only things
\* left to make a round fail for ever are the hardware and the class itself.
HwLiveSpec == LiveSpec /\ SF_vars(CaptureFinish /\ pc' = "postproc")

\* C16: after a failed capture round, unless the hardware is down at some
\* later moment or stop() is called, the loop gets to the end of a
\* successful capture round.
C16_RecoversWhenHardwareBack ==
    (pc = "reset_stop" /\ capture_successful = "fail")
        ~> (pc = "postproc" \/ hw = "down" \/ ~auto_capture_running)

\* ------------------------------------------------------------------ C17
\* close() called by the owner of the object while no loop is running.
Close ==
    /\ main_pc = "constructed"
    /\ ~ThreadActive
    /\ \E stop_ok \in BOOLEAN, close_ok \in BOOLEAN :
         LET r == close(cam, stop_ok, close_ok) IN
         /\ cam' = r.cam
         /\ close_obs' = r.obs
    /\ UNCHANGED <<env_vars, cfg_vars, main_pc, init_retries, cam_ready,
                   tx_resolution_set, cap_vars, thr_vars, obs_vars, new_obs,
                   others, since_stop, ctor_obs, auto_capture_running, pc>>

NextWithClose == Next \/ Close

\* The class used by a caller that also calls close().
CloseSpec == Init /\ [][NextWithClose]_vars

\* C17: an init_camera call that finds a handle tries to close it first and
\* goes on to Picamera2() whether or not that close raised, so that a new
\* handle is made whenever the hardware lets it; a close() call makes both
\* its stop and its close attempt and does not raise.
C17_CloseBeforeReopen ==
    /\ (init_obs.ran /\ init_obs.prev) =>
          /\ Len(init_obs.ops) >= 2
          /\ init_obs.ops[1] = "close"
          /\ init_obs.ops[2] = "create"
          /\ init_obs.create_ok => init_obs.created
    /\ close_obs.ran =>
          /\ close_obs.ops = <<"stop", "close">>
          /\ ~close_obs.raised

\* An init_camera call whose close of the old handle raised has made the new
\* handle, and a later close() whose stop raised has released it.
C17_Witness ==
    /\ init_obs.ran /\ init_obs.prev
    /\ init_obs.close_raised /\ init_obs.created
    /\ close_obs.ran /\ close_obs.stop_raised /\ ~close_obs.close_raised
    /\ cam = "closed"

\* ------------------------------------------------------------------ C18
\* The recovery branch of auto_capture, lines 357-379.
InReset == pc \in {"reset_stop", "reset_close", "reset_init"}
\* The session a handle state stands for, the stream left aside.
Session(c) == IF c = "started" THEN "open" ELSE c

\* C18: the loop is in its recovery branch only in a cycle whose capture
\* failed; a cycle whose capture succeeded runs no recovery step, however it
\* ends; and outside the recovery branch no step after the constructor
\* closes the session, opens one, or calls init_camera.
C18_ReopenOnlyAfterFailedCapture ==
    /\ [](InReset => capture_successful = "fail")
    /\ [](capture_successful = "ok" => rec_log = <<>>)
    /\ [][(main_pc = "constructed" /\ ~InReset) =>
            /\ Session(cam') = Session(cam)
            /\ cam_ready' = cam_ready
            /\ init_obs'.ran => init_obs' = init_obs]_vars

\* A cycle has ended in an enqueue and the next image is waiting for the
\* queue: no recovery step has run, the session is open and ready.
C18_Witness ==
    /\ pc = "wait_check"
    /\ Len(enq_log) = 1
    /\ capture_successful = "ok"
    /\ rec_log = <<>>
    /\ cam_ready
    /\ Session(cam) = "open"

\* ------------------------------------------------------------------ C19
\* C19 as claimed: the settle delay is slept only in a round that started
\* the stream itself; a round in continuous-AF mode sleeps none.
C19_SettleOnlyPerRound == settle => lens # "continuous"

\* C19, amended: every round that gets to its first capture_file has slept
\* the settle delay, in continuous-AF mode too; a round that fails before
\* that (no handle, a debug emission, cam.start() raising) has not.
C19_SettleInEveryRound ==
    /\ pc \in {"shot", "cap_finish", "postproc"} => settle
    /\ FalseBeforeShot => ~settle

\* Continuous-AF mode, stream running since init_camera: the round has slept
\* the delay and is about to make its first capture.
C19_Witness ==
    /\ lens = "continuous"
    /\ cam = "started"
    /\ pc = "shot"
    /\ shots = <<>>
    /\ settle

\* ------------------------------------------------------------------ C20
\* capture has been called and has not returned.
InCapture == pc \in {"capture", "shot", "cap_finish"}

\* C20 as claimed: the loop is inside capture only on a session whose most
\* recent init_camera call ran to its end.
C20_CaptureOnlyWhenReady == InCapture => cam_ready

\* C20, amended: the loop calls capture at the start of every cycle,
\* whatever the last init_camera call did; a round called with no handle
\* fails before its first capture_file and sends the loop to recovery, so
\* that no round gets to capture_file without a handle.
C20_CaptureWhateverTheSession ==
    /\ [][(pc = "loop" /\ auto_capture_running /\ pc' # pc)
             => pc' = "capture"]_vars
    /\ [][(pc = "capture" /\ cam = "absent" /\ pc' # pc)
             => (pc' = "reset_stop" /\ capture_successful' = "fail")]_vars
    /\ [](pc \in {"shot", "cap_finish", "postproc"} => cam # "absent")

\* No open has got as far as a handle, the hardware is down: capture was
\* called all the same and has failed.
C20_Witness ==
    /\ pc = "reset_stop"
    /\ capture_successful = "fail"
    /\ cam = "absent"
    /\ ~cam_ready
    /\ debug_set
    /\ hw = "down"

\* ------------------------------------------------------------------ C21
\* C21: from the moment stop() clears the flag, and as long as no run()
\* sets it again, the loop calls capture at most once more and queues at
\* most one more file.
C21_AtMostOneMoreRound ==
    /\ since_stop.rounds <= 1
    /\ since_stop.enqs <= 1

\* stop() came during the delay that precedes capture: the round was still
\* made, its file queued, and the loop has left at line 424.
C21_Witness ==
    /\ pc = "done"
    /\ ~auto_capture_running
    /\ since_stop.rounds = 1
    /\ since_stop.enqs = 1
    /\ last_poll = "empty"

\* ------------------------------------------------------------------ C22
\* The constructor has returned and run() has not been called yet.
Constructed == main_pc = "constructed" /\ pc = "idle"

\* C22: the constructor calls init_camera at most init_retries times and
\* not again once a call has succeeded; it returns when a call succeeds or
\* the retries are used up, and if every call failed all init_retries of
\* them were made and the session is not ready.
C22_BoundedOpenAttempts ==
    /\ ctor_obs.attempts <= ctor_obs.arg
    /\ ~ctor_obs.late
    /\ main_pc = "ctor" =>
          /\ ~ctor_obs.succeeded
          /\ ctor_obs.attempts + init_retries = ctor_obs.arg
    /\ (Constructed /\ ctor_obs.succeeded) => cam_ready
    /\ (Constructed /\ ~ctor_obs.succeeded) =>
          /\ ctor_obs.attempts = ctor_obs.arg
          /\ ~cam_ready

\* Called with init_retries = 2: both calls of init_camera failed and the
\* constructor has returned.
C22_Witness ==
    /\ Constructed
    /\ ctor_obs.arg = 2
    /\ ctor_obs.attempts = 2
    /\ ~ctor_obs.succeeded
    /\ ~cam_ready

============================================================================
